---------------------------- MODULE Spec2Model ----------------------------
(***************************************************************************)
(* Model of src/main.py: the Flask service over the SQLite store           *)
(* music_domain.db (tables artist, album, song), its universal GET         *)
(* function generic_get and its create handlers (PUT) with the Appian      *)
(* webhook.                                                                *)
(*                                                                         *)
(* Strings (query parameters) are sequences of one-character strings, so   *)
(* that str.strip, str.split, int() and SQLite's numeric conversion are    *)
(* computed character by character.  The characters used are the digits,   *)
(* space, tab, comma, the signs, underscore and letters.                   *)
(*                                                                         *)
(* A row keeps the columns the handlers compute with: the primary key, the *)
(* foreign keys and, for artist, updated_on (the one column that is ever   *)
(* updated).  The name columns, updated_by and the children's updated_on   *)
(* are written once and never read by the code; they are left out.         *)
(***************************************************************************)
EXTENDS Integers, Sequences, FiniteSets, TLC

VARIABLES
    artist,       \* committed rows of table artist, in rowid order
    album,        \* committed rows of table album
    song,         \* committed rows of table song
    get,          \* the in-flight generic_get invocation
    put           \* the in-flight create (PUT) invocation

vars == <<artist, album, song, get, put>>
store == <<artist, album, song>>

----------------------------------------------------------------------------
(* Bounds and program constants *)

\* most rows a table holds in the concurrent specification
MaxRows == 2
\* most rows a table holds in the read-only specification
MaxSeedRows == 3
\* request.args.get('page', 1)
DefaultPage == 1
\* request.args.get('limit', 20)
DefaultLimit == 20

\* values of get_timestamp(): datetime.now() is wall-clock time, it may
\* repeat or step back, so a call returns any of them
Timestamps == {"t1", "t2"}

\* data.get('artist_id') of a body without the key: None, bound as SQL NULL
NULL == 0

----------------------------------------------------------------------------
(* Strings *)

None == [present |-> FALSE, str |-> <<>>]
Some(s) == [present |-> TRUE, str |-> s]

DigitChars == <<"0", "1", "2", "3", "4", "5", "6", "7", "8", "9">>
IsDigit(c) == \E i \in 1..10 : DigitChars[i] = c
DigitVal(c) == (CHOOSE i \in 1..10 : DigitChars[i] = c) - 1
IsSpace(c) == c \in {" ", "\t"}

RECURSIVE LStrip(_)
LStrip(s) == IF s # <<>> /\ IsSpace(Head(s)) THEN LStrip(Tail(s)) ELSE s

RECURSIVE RStrip(_)
RStrip(s) ==
    IF s # <<>> /\ IsSpace(s[Len(s)]) THEN RStrip(SubSeq(s, 1, Len(s) - 1)) ELSE s

\* str.strip()
Strip(s) == RStrip(LStrip(s))

\* str.split(','): never empty, "" splits to [""]
RECURSIVE Split(_)
Split(s) ==
    IF \E i \in 1..Len(s) : s[i] = ","
    THEN LET k == CHOOSE i \in 1..Len(s) :
                      s[i] = "," /\ \A j \in 1..(i - 1) : s[j] # ","
         IN  <<SubSeq(s, 1, k - 1)>> \o Split(SubSeq(s, k + 1, Len(s)))
    ELSE <<s>>

RECURSIVE DigitsValue(_, _)
DigitsValue(s, acc) ==
    IF s = <<>> THEN acc
    ELSE IF Head(s) = "_" THEN DigitsValue(Tail(s), acc)
    ELSE DigitsValue(Tail(s), 10 * acc + DigitVal(Head(s)))

\* Python int(str): surrounding whitespace, one optional sign, digits with
\* single underscores between them; anything else raises ValueError
ParseInt(s) ==
    LET t == Strip(s)
        signed == t # <<>> /\ Head(t) \in {"+", "-"}
        d == IF signed THEN Tail(t) ELSE t
        ok == /\ d # <<>>
              /\ \A i \in 1..Len(d) : IsDigit(d[i]) \/ d[i] = "_"
              /\ IsDigit(d[1]) /\ IsDigit(d[Len(d)])
              /\ \A i \in 1..(Len(d) - 1) : ~(d[i] = "_" /\ d[i + 1] = "_")
    IN  IF ok
        THEN [ok |-> TRUE,
              val |-> IF signed /\ Head(t) = "-" THEN 0 - DigitsValue(d, 0)
                      ELSE DigitsValue(d, 0)]
        ELSE [ok |-> FALSE, val |-> 0]

\* SQLite, comparing an INTEGER column with a bound TEXT value: the text is
\* converted when it is a well-formed integer literal (surrounding
\* whitespace and a sign allowed); other text equals no integer
TokenValue(tok) ==
    LET t == Strip(tok)
        signed == t # <<>> /\ Head(t) \in {"+", "-"}
        d == IF signed THEN Tail(t) ELSE t
        ok == d # <<>> /\ \A i \in 1..Len(d) : IsDigit(d[i])
    IN  IF ok
        THEN [num |-> TRUE,
              val |-> IF signed /\ Head(t) = "-" THEN 0 - DigitsValue(d, 0)
                      ELSE DigitsValue(d, 0)]
        ELSE [num |-> FALSE, val |-> 0]

Max(a, b) == IF a >= b THEN a ELSE b
Min(a, b) == IF a <= b THEN a ELSE b


----------------------------------------------------------------------------
(* The store *)

\* the three GET list routes: generic_get(table_name, pk_column)
GetRoutes ==
    { [table |-> "artist", pk |-> "artist_id"],
      [table |-> "album",  pk |-> "album_id"],
      [table |-> "song",   pk |-> "song_id"] }

Table(name) ==
    CASE name = "artist" -> artist
      [] name = "album"  -> album
      [] name = "song"   -> song

\* faulty variant: one lookup per token, the results concatenated
SelectInPerToken(rows, pk, id_list) ==
    LET RECURSIVE Lookups(_)
        Lookups(k) ==
            IF k > Len(id_list) THEN <<>>
            ELSE LET Hit(r) == /\ TokenValue(id_list[k]).num
                               /\ TokenValue(id_list[k]).val = r[pk]
                 IN  SelectSeq(rows, Hit) \o Lookups(k + 1)
    IN  Lookups(1)

\* SELECT * FROM t WHERE pk IN (?, ?, ...): one pass over the table in rowid
\* order, a row is kept when its key equals some bound value
SelectIn(rows, pk, id_list) ==
    LET Hit(r) == \E k \in 1..Len(id_list) :
                      /\ TokenValue(id_list[k]).num
                      /\ TokenValue(id_list[k]).val = r[pk]
    IN  SelectSeq(rows, Hit)

\* faulty variant: the offset is one page too far
SelectPageTimesLimit(rows, limit, offset) ==
    LET off == Max(0, offset + limit)
        last == IF limit < 0 THEN Len(rows) ELSE Min(Len(rows), off + limit)
    IN  IF off + 1 > last THEN <<>> ELSE SubSeq(rows, off + 1, last)

\* faulty variant: the offset is not applied
SelectIgnoringOffset(rows, limit, offset) ==
    LET last == IF limit < 0 THEN Len(rows) ELSE Min(Len(rows), limit)
    IN  IF 1 > last THEN <<>> ELSE SubSeq(rows, 1, last)

\* SELECT * FROM t LIMIT ? OFFSET ?, rows in rowid order: a negative LIMIT
\* is no limit, a negative OFFSET is 0
SelectLimitOffset(rows, limit, offset) ==
    LET off == Max(0, offset)
        last == IF limit < 0 THEN Len(rows) ELSE Min(Len(rows), off + limit)
    IN  IF off + 1 > last THEN <<>> ELSE SubSeq(rows, off + 1, last)

----------------------------------------------------------------------------
(* generic_get *)

\* faulty variant: whitespace is not trimmed
IsBatchModeNoStrip(ids) == ids.present /\ ids.str # <<>>

\* if ids_param and ids_param.strip()
IsBatchMode(ids) == ids.present /\ ids.str # <<>> /\ Strip(ids.str) # <<>>

\* the try block around both int() calls: either ValueError resets both
ParsePagination(a) ==
    LET pg == IF a.page.present THEN ParseInt(a.page.str)
              ELSE [ok |-> TRUE, val |-> DefaultPage]
        lm == IF a.limit.present THEN ParseInt(a.limit.str)
              ELSE [ok |-> TRUE, val |-> DefaultLimit]
    IN  IF pg.ok /\ lm.ok
        THEN [page |-> pg.val, limit |-> lm.val]
        ELSE [page |-> DefaultPage, limit |-> DefaultLimit]

\* faulty variant: floor instead of ceiling
TotalPagesFloor(total_count, limit) ==
    IF limit > 0 THEN total_count \div limit ELSE 1

\* (total_count + limit - 1) // limit if limit > 0 else 1
TotalPages(total_count, limit) ==
    IF limit > 0 THEN (total_count + limit - 1) \div limit ELSE 1

\* the JSON body of the response
Envelope(g) ==
    [pagination |-> [total        |-> g.total_count,
                     limit        |-> g.limit,
                     offset       |-> g.offset,
                     total_pages  |-> TotalPages(g.total_count, g.limit),
                     current_page |-> g.page],
     data |-> g.data]

GetIdle ==
    [pc |-> "idle", table |-> "artist", pk |-> "artist_id",
     args |-> [ids |-> None, page |-> None, limit |-> None],
     page |-> 0, limit |-> 0, offset |-> 0,
     total_count |-> 0, data |-> <<>>, log |-> <<>>]

\* a GET arrives on a list route; the arguments are read and parsed and the
\* offset computed.  One invocation is followed from its arrival, at any
\* moment of the writes, to its response
GetRequest(route, a) ==
    /\ get.pc = "idle"
    /\ LET p == ParsePagination(a)
       IN  get' = [pc |-> "parsed", table |-> route.table, pk |-> route.pk,
                   args |-> a, page |-> p.page, limit |-> p.limit,
                   offset |-> (p.page - 1) * p.limit,
                   total_count |-> 0, data |-> <<>>, log |-> <<>>]
    /\ UNCHANGED <<artist, album, song, put>>

\* faulty variant: total is the size of the table, not of the result
BatchQueryTotalUnfiltered ==
    /\ get.pc = "parsed"
    /\ IsBatchMode(get.args.ids)
    /\ LET rows == SelectIn(Table(get.table), get.pk, Split(get.args.ids.str))
       IN  get' = [get EXCEPT !.pc = "done", !.data = rows,
                              !.total_count = Len(Table(get.table)),
                              !.log = Append(get.log, "in")]
    /\ UNCHANGED <<artist, album, song, put>>

\* faulty variant: batch mode runs the count query as well
BatchQueryAlsoCounts ==
    /\ get.pc = "parsed"
    /\ IsBatchMode(get.args.ids)
    /\ LET rows == SelectIn(Table(get.table), get.pk, Split(get.args.ids.str))
       IN  get' = [get EXCEPT !.pc = "done", !.data = rows,
                              !.total_count = Len(Table(get.table)),
                              !.log = <<"count", "in">>]
    /\ UNCHANGED <<artist, album, song, put>>

\* batch mode: the IN lookup, then the response
BatchQuery ==
    /\ get.pc = "parsed"
    /\ IsBatchMode(get.args.ids)
    /\ LET rows == SelectIn(Table(get.table), get.pk, Split(get.args.ids.str))
       IN  get' = [get EXCEPT !.pc = "done", !.data = rows,
                              !.total_count = Len(rows),
                              !.log = Append(get.log, "in")]
    /\ UNCHANGED <<artist, album, song, put>>

\* paging mode, first statement: SELECT COUNT(*)
CountQuery ==
    /\ get.pc = "parsed"
    /\ ~IsBatchMode(get.args.ids)
    /\ get' = [get EXCEPT !.pc = "slice",
                          !.total_count = Len(Table(get.table)),
                          !.log = Append(get.log, "count")]
    /\ UNCHANGED <<artist, album, song, put>>

\* paging mode, second statement: the data slice, then the response
SliceQuery ==
    /\ get.pc = "slice"
    /\ get' = [get EXCEPT !.pc = "done",
                          !.data = SelectLimitOffset(Table(get.table),
                                                     get.limit, get.offset),
                          !.log = Append(get.log, "slice")]
    /\ UNCHANGED <<artist, album, song, put>>

\* the response of a finished invocation
Response == Envelope(get)

\* generic_get run from arrival to response with no write in between
ResultOf(route, a) ==
    LET p == ParsePagination(a)
        rows == Table(route.table)
        batch == IsBatchMode(a.ids)
        data == IF batch THEN SelectIn(rows, route.pk, Split(a.ids.str))
                ELSE SelectLimitOffset(rows, p.limit, (p.page - 1) * p.limit)
    IN  Envelope([page |-> p.page, limit |-> p.limit,
                  offset |-> (p.page - 1) * p.limit,
                  total_count |-> IF batch THEN Len(data) ELSE Len(rows),
                  data |-> data])

----------------------------------------------------------------------------
(* The create handlers *)

\* faulty variant: an exception of the post reaches the handler
NotifyStatusPropagates(outcome) == IF outcome = "raised" THEN 500 ELSE 201

\* trigger_appian_sync: the URL unset skips the post; an exception of
\* requests.post is caught and printed.  Either way the caller goes on to
\* return its 201

NotifyStatus(outcome) == 201

\* "skipped": APPIAN_WEBHOOK_URL is empty in the environment of the running
\* process (the store outlives the process, so runs with and without the
\* URL write to the same file); "sent": the post returned; "raised": it threw
NotifyOutcomes == {"sent", "raised", "skipped"}

PutIdle ==
    [pc |-> "idle", kind |-> "artist", artist_id |-> NULL, album_id |-> NULL,
     ts |-> "t1", lastrowid |-> 0, status |-> 0, notified |-> "none"]

\* request bodies: the handler, the foreign keys it reads with data.get and
\* the value of get_timestamp() it writes
CreateInputs ==
    {[kind |-> "artist", artist_id |-> NULL, album_id |-> NULL, ts |-> t] :
        t \in Timestamps}
    \cup {[kind |-> "album", artist_id |-> a, album_id |-> NULL, ts |-> t] :
        a \in {NULL, 1}, t \in Timestamps}
    \cup {[kind |-> "song", artist_id |-> a, album_id |-> b, ts |-> t] :
        a \in {NULL, 1}, b \in {NULL, 1}, t \in Timestamps}

\* NOT NULL columns of the inserted row
ViolatesNotNull(c) ==
    \/ c.kind = "album" /\ c.artist_id = NULL
    \/ c.kind = "song" /\ (c.artist_id = NULL \/ c.album_id = NULL)

\* a PUT arrives; the INSERT (and the parent UPDATE) run in the connection's
\* open transaction, invisible to other connections.  A constraint error
\* propagates: 500, and teardown closes the connection without a commit
PutExecute(c) ==
    /\ put.pc \in {"idle", "done"}
    /\ Len(Table(c.kind)) < MaxRows
    /\ put' = IF ViolatesNotNull(c)
              THEN [pc |-> "done", kind |-> c.kind, artist_id |-> c.artist_id,
                    album_id |-> c.album_id, ts |-> c.ts, lastrowid |-> 0,
                    status |-> 500, notified |-> "none"]
              ELSE [pc |-> "commit", kind |-> c.kind, artist_id |-> c.artist_id,
                    album_id |-> c.album_id, ts |-> c.ts,
                    lastrowid |-> Len(Table(c.kind)) + 1,
                    status |-> 0, notified |-> "none"]
    /\ UNCHANGED <<artist, album, song, get>>

\* UPDATE artist SET updated_on = ? WHERE artist_id = ?
TouchArtist(rows, id, ts) ==
    [i \in DOMAIN rows |->
        IF rows[i].artist_id = id THEN [rows[i] EXCEPT !.updated_on = ts]
        ELSE rows[i]]

\* db.commit(): the transaction becomes visible at once.  create_artist
\* returns its 201 here; the other two go on to the webhook
PutCommit ==
    /\ put.pc = "commit"
    /\ artist' = CASE put.kind = "artist" ->
                        Append(artist, [artist_id |-> put.lastrowid,
                                        updated_on |-> put.ts])
                   [] OTHER -> TouchArtist(artist, put.artist_id, put.ts)
    /\ album' = IF put.kind = "album"
                THEN Append(album, [album_id |-> put.lastrowid,
                                    artist_id |-> put.artist_id])
                ELSE album
    /\ song' = IF put.kind = "song"
               THEN Append(song, [song_id |-> put.lastrowid,
                                  artist_id |-> put.artist_id,
                                  album_id |-> put.album_id])
               ELSE song
    /\ put' = IF put.kind = "artist"
              THEN [put EXCEPT !.pc = "done", !.status = 201]
              ELSE [put EXCEPT !.pc = "notify"]
    /\ UNCHANGED get

\* trigger_appian_sync(artist_id), then return ..., 201
Notify(outcome) ==
    /\ put.pc = "notify"
    /\ put' = [put EXCEPT !.pc = "done", !.status = NotifyStatus(outcome),
                          !.notified = outcome]
    /\ UNCHANGED <<artist, album, song, get>>

----------------------------------------------------------------------------
(* Requests *)

S1 == <<"1">>
S2 == <<"2">>

\* query strings of the GETs that run beside the writes
SmallArgs ==
    { [ids |-> None, page |-> None, limit |-> None],
      [ids |-> None, page |-> Some(S2), limit |-> Some(S1)],
      [ids |-> Some(<<"1", ",", "2">>), page |-> None, limit |-> None] }

IdsBlank == {None, Some(<<>>), Some(<<" ">>), Some(<<"\t", " ">>)}

IdsGiven ==
    {Some(S1), Some(<<"1", ",", "3">>), Some(<<"2", ",", "2">>),
     Some(<<" ", "1">>), Some(<<"1", ",", "0", "1">>), Some(<<"9">>),
     Some(<<"a">>), Some(<<"1", ",", ",", "2">>), Some(<<",">>),
     Some(<<" ", ",", "3", " ">>), Some(<<"-", "1">>)}

PageInputs ==
    {None, Some(S1), Some(S2), Some(<<"3">>), Some(<<"0">>), Some(<<"-", "1">>),
     Some(<<"a", "b", "c">>), Some(<<>>), Some(<<" ", "2">>)}

LimitInputs ==
    {None, Some(S1), Some(S2), Some(<<"3">>), Some(<<"0">>), Some(<<"-", "1">>),
     Some(<<"x">>), Some(<<"2", "0">>)}

\* query strings of the GETs of the read-only specification
RichArgs ==
    {[ids |-> i, page |-> p, limit |-> l] :
        i \in IdsBlank, p \in PageInputs, l \in LimitInputs}
    \cup {[ids |-> i, page |-> p, limit |-> l] :
        i \in IdsGiven, p \in {None, Some(<<"a", "b", "c">>), Some(S2)},
        l \in {None, Some(S2)}}

\* a store of the given row counts, as the create handlers leave it
SeedArtist(n) == [i \in 1..n |-> [artist_id |-> i, updated_on |-> "t1"]]
SeedAlbum(n) == [i \in 1..n |-> [album_id |-> i, artist_id |-> 1]]
SeedSong(n) == [i \in 1..n |-> [song_id |-> i, artist_id |-> 1, album_id |-> 1]]

----------------------------------------------------------------------------
(* Specifications *)

\* the service after init_db on a fresh file: one GET and one PUT in flight
Init ==
    /\ artist = <<>> /\ album = <<>> /\ song = <<>>
    /\ get = GetIdle
    /\ put = PutIdle

Next ==
    \/ \E r \in GetRoutes, a \in SmallArgs : GetRequest(r, a)
    \/ BatchQuery
    \/ CountQuery
    \/ SliceQuery
    \/ \E c \in CreateInputs : PutExecute(c)
    \/ PutCommit
    \/ \E o \in NotifyOutcomes : Notify(o)

Spec == Init /\ [][Next]_vars

\* reads only, against a store that does not change
InitGet ==
    /\ \E n \in 0..MaxSeedRows : artist = SeedArtist(n)
    /\ \E n \in 0..MaxSeedRows : album = SeedAlbum(n)
    /\ \E n \in 0..MaxSeedRows : song = SeedSong(n)
    /\ get = GetIdle
    /\ put = PutIdle

NextGet ==
    \/ \E r \in GetRoutes, a \in RichArgs : GetRequest(r, a)
    \/ BatchQuery
    \/ CountQuery
    \/ SliceQuery

SpecGet == InitGet /\ [][NextGet]_vars

----------------------------------------------------------------------------
(* Properties *)

Done == get.pc = "done"
BatchTaken == Done /\ get.log = <<"in">>
PagedTaken == Done /\ get.log = <<"count", "slice">>
Rows == Table(get.table)
RowSet(rows) == {rows[i] : i \in 1..Len(rows)}
Tokens == Split(get.args.ids.str)

\* ceil(a / b) for a >= 0, b > 0, by its defining inequalities
CeilDiv(a, b) == CHOOSE q \in 0..a : q * b >= a /\ (q - 1) * b < a

\* C1: an invocation takes Batch Mode (the IN lookup alone) exactly when
\* ids is present and non-empty after trimming whitespace, and Paged Mode
\* (the count, then the slice) in every other case; no invocation runs both
\* the IN lookup and the count or slice
C1_ModeSelection ==
    LET wantsBatch == get.args.ids.present /\ Strip(get.args.ids.str) # <<>>
    IN  /\ get.pc = "slice" => ~wantsBatch /\ get.log = <<"count">>
        /\ Done => IF wantsBatch THEN get.log = <<"in">>
                   ELSE get.log = <<"count", "slice">>

C1_Witness ==
    /\ PagedTaken
    /\ get.args.ids.present /\ get.args.ids.str # <<>>
    /\ Strip(get.args.ids.str) = <<>>

C3_BatchRows ==
    BatchTaken =>
        /\ \A i \in 1..Len(get.data) :
              /\ get.data[i] \in RowSet(Rows)
              /\ \E k \in 1..Len(Tokens) :
                    TokenValue(Tokens[k]).num
                    /\ TokenValue(Tokens[k]).val = get.data[i][get.pk]
        /\ \A i, j \in 1..Len(get.data) : i # j => get.data[i] # get.data[j]
        /\ Len(get.data) <= Cardinality(RowSet(Tokens))

C3_Witness ==
    /\ BatchTaken
    /\ Len(Tokens) = 2 /\ Tokens[1] = Tokens[2]
    /\ Len(get.data) = 1

C3_WitnessUnknownId ==
    /\ BatchTaken
    /\ get.args.ids.str = <<"9">>
    /\ Len(Rows) > 0 /\ get.data = <<>>

\* C4 as stated: a request whose page is not an integer gets the response
\* of the same request with page left out, whatever the other parameters
C4_MalformedPageAsOmitted ==
    (Done /\ get.args.page.present /\ ~ParseInt(get.args.page.str).ok) =>
        Response = ResultOf([table |-> get.table, pk |-> get.pk],
                            [get.args EXCEPT !.page = None])

\* C5: in Paged Mode total_pages is ceil(total / limit) when limit > 0 and
\* 1 otherwise, total being the row count of the table; offset is
\* (page - 1) * limit and current_page is page
C5_Pagination ==
    PagedTaken =>
        /\ Response.pagination.total = Len(Rows)
        /\ Response.pagination.total_pages =
              (IF get.limit > 0 THEN CeilDiv(Len(Rows), get.limit) ELSE 1)
        /\ Response.pagination.offset = (get.page - 1) * get.limit
        /\ Response.pagination.current_page = get.page
        /\ Response.pagination.limit = get.limit

C5_Witness ==
    /\ PagedTaken
    /\ get.limit = 2 /\ Len(Rows) = 3
    /\ Response.pagination.total_pages = 2

C5_WitnessNoLimit ==
    /\ PagedTaken
    /\ get.limit < 0
    /\ Response.pagination.total_pages = 1

\* C6 as stated: Paged Mode on an empty table with limit > 0 reports
\* total_pages = 1, total = 0 and no rows
C6_EmptyResourceOnePage ==
    (PagedTaken /\ Len(Rows) = 0 /\ get.limit > 0) =>
        /\ Response.pagination.total_pages = 1
        /\ Response.pagination.total = 0
        /\ Response.data = <<>>

\* C7: no step of generic_get changes a row of artist, album or song; a
\* finished Batch Mode invocation has run exactly one query, a finished
\* Paged Mode invocation two (one count, one data fetch)
C7_ReadOnly ==
    /\ [][get' # get => UNCHANGED store]_vars
    /\ [](Done => \/ get.log = <<"in">>
                  \/ get.log = <<"count", "slice">>)
    /\ [](get.pc # "done" => Len(get.log) <= 1)

C7_Witness ==
    /\ BatchTaken
    /\ get.data # <<>>
    /\ put.pc = "commit"

\* the row of the finished or pending create is committed, and so is the
\* update of its parent's timestamp
ChildPersisted ==
    /\ put.lastrowid \in 1..Len(Table(put.kind))
    /\ Table(put.kind)[put.lastrowid].artist_id = put.artist_id
    /\ \A i \in 1..Len(artist) :
          artist[i].artist_id = put.artist_id => artist[i].updated_on = put.ts

\* C8: create_album and create_song invoke the notifier only once the
\* insert and the parent update are committed, and whatever the notifier
\* does (post sent, post raised, URL unset) the row stays and the handler
\* returns 201
C8_NotifierNeverFailsWrite ==
    put.kind \in {"album", "song"} =>
        /\ put.pc = "notify" => ChildPersisted
        /\ put.notified # "none" =>
              put.pc = "done" /\ put.status = 201 /\ ChildPersisted

C8_Witness ==
    /\ put.kind = "album"
    /\ put.notified = "raised"
    /\ put.status = 201
    /\ \E i \in 1..Len(album) : album[i].album_id = put.lastrowid

C8_WitnessUnset ==
    /\ put.kind = "song"
    /\ put.notified = "skipped"
    /\ put.status = 201

\* the pages 1..n of the table at the given limit, one after the other
RECURSIVE PagesFrom(_, _, _)
PagesFrom(p, n, limit) ==
    IF p > n THEN <<>>
    ELSE SelectLimitOffset(Rows, limit, (p - 1) * limit)
            \o PagesFrom(p + 1, n, limit)

\* C9: in Paged Mode with page >= 1 and limit >= 0 on an unchanged table of
\* N rows, data is the rows at positions offset+1 .. offset+limit (those
\* that exist: min(limit, max(0, N - offset)) rows), total is N, and the
\* pages 1..ceil(N / limit) at a limit > 0 make up the table, in order,
\* each row once
C9_PageSlice ==
    (PagedTaken /\ get.page >= 1 /\ get.limit >= 0) =>
        LET N == Len(Rows)
            off == (get.page - 1) * get.limit
            k == Min(get.limit, Max(0, N - off))
        IN  /\ Len(Response.data) = k
            /\ \A i \in 1..k : Response.data[i] = Rows[off + i]
            /\ Response.pagination.total = N
            /\ get.limit > 0 =>
                  PagesFrom(1, CeilDiv(N, get.limit), get.limit) = Rows

C9_Witness ==
    /\ PagedTaken
    /\ get.page = 2 /\ get.limit = 2 /\ Len(Rows) = 3
    /\ Response.data = <<Rows[3]>>

\* C10 as stated: the rows in data never exceed max(0, total - offset)
\* when limit >= 0, whatever commits beside the invocation
C10_TotalCoversData ==
    (PagedTaken /\ get.limit >= 0) =>
        Len(Response.data) <= Max(0, Response.pagination.total - get.offset)

\* C10 amended: total is the row count at the count query, data is read
\* from the table as it is at the later slice query; rows are only ever
\* added, so total is at most the row count N of the state data is read
\* from, and data holds at most max(0, N - offset) rows when limit >= 0
C10_TotalNotAfterData ==
    [][(get.pc = "slice" /\ get'.pc = "done") =>
          /\ get'.total_count = get.total_count
          /\ get.total_count <= Len(Rows)
          /\ get.limit >= 0 =>
                Len(get'.data) <= Max(0, Len(Rows) - get.offset)]_vars

C10_Witness ==
    /\ PagedTaken
    /\ get.limit >= 0
    /\ Response.pagination.total = 0
    /\ Len(Response.data) = 1

=============================================================================
